---------------------------- MODULE Spec2Model ----------------------------
(***************************************************************************)
(* A model of app.py (SkillQuizzer): the quiz-text parser parse_questions, *)
(* the generation pipeline around it, and the Streamlit script that keeps  *)
(* the quiz, the answers and the score in the session state.               *)
(*                                                                         *)
(* Text is modelled as a sequence of lexemes.  Every lexeme is a run of    *)
(* characters that the regular expressions of app.py treat as a unit:      *)
(*   "TAG"          the delimiter  [Question_                              *)
(*   "Difficulty:" "Question:" "Options:" "Correct:"   the labels          *)
(*   "NL" "SP"      a newline, a blank (the characters \s matches)         *)
(*   "A" .. "E"     a capital letter,  "a" a small letter                  *)
(*   ")"            a closing parenthesis                                  *)
(*   "medium" "HARD" "easy"   difficulty words in the case written         *)
(*   "x" "y" "z" "w"          any other non-blank text                     *)
(***************************************************************************)
EXTENDS Integers, Sequences, FiniteSets

VARIABLES
    text,         \* parser specifications: the input string written so far
    built,        \* parser specifications: what the input was written from
    outcome,      \* parser specifications: the outcome of the call, once made
    stage,        \* parser specifications: how far the input is written
    url,          \* the text of the URL field
    questions,    \* st.session_state.questions
    answers,      \* st.session_state.answers
    score,        \* st.session_state.score
    radio,        \* the widget state of the radios question_<i>
    page,         \* what the last run of the script rendered
    certificates, \* the names generate_certificate was called with
    last          \* the event that started the last run; for Generate Quiz,
                  \* the questions held before it

vars == <<text, built, outcome, stage, url, questions, answers, score, radio,
          page, certificates, last>>

parseVars == <<text, built, outcome, stage>>

sessionVars == <<url, questions, answers, score, radio, page, certificates, last>>

---------------------------------------------------------------------------
(* Strings *)

Whitespace == {"NL", "SP"}

OptionLetters == {"A", "B", "C", "D"}

Min(S) == CHOOSE m \in S : \A n \in S : m <= n

Max(S) == CHOOSE m \in S : \A n \in S : m >= n

Slice(s, i, j) == IF i > j THEN <<>> ELSE SubSeq(s, i, j)

\* F applied to the value of e, with e evaluated once
Bind(e, F(_)) == CHOOSE y \in {F(x) : x \in {e}} : TRUE

\* str.strip(): the string without its leading and trailing whitespace
strip(s) ==
    LET keep == {i \in 1..Len(s) : s[i] \notin Whitespace}
    IN  IF keep = {} THEN <<>> ELSE SubSeq(s, Min(keep), Max(keep))

\* \s* matched greedily from position i: the position after the blanks
SkipSpace(s, i) ==
    LET stop == {j \in i..Len(s) : s[j] \notin Whitespace}
    IN  IF stop = {} THEN Len(s) + 1 ELSE Min(stop)

\* str.capitalize() on the words the difficulty pattern can match
capitalize(w) ==
    CASE w \in {"medium", "MEDIUM", "Medium"} -> "Medium"
      [] w \in {"hard", "HARD", "Hard"} -> "Hard"
      [] OTHER -> w

\* str.upper() on the letters of the model
upper(c) ==
    CASE c = "a" -> "A"
      [] OTHER -> c

\* text.split('[Question_'): the chunks between the delimiters
RECURSIVE split(_)
split(s) ==
    LET tags == {i \in 1..Len(s) : s[i] = "TAG"}
    IN  IF tags = {} THEN <<s>>
        ELSE LET i == Min(tags)
             IN  <<Slice(s, 1, i - 1)>> \o split(Slice(s, i + 1, Len(s)))

---------------------------------------------------------------------------
(* The regular expressions of parse_questions.  A search yields            *)
(* [found |-> FALSE] for None, else the group(1) of the leftmost match.    *)

NoMatch == [found |-> FALSE, group |-> <<>>]

Match(g) == [found |-> TRUE, group |-> g]

\* re.search(r"Difficulty:\s*(medium|hard)", block, re.IGNORECASE)
SearchDifficulty(block) ==
    LET hits == {i \in 1..Len(block) :
                    /\ block[i] = "Difficulty:"
                    /\ SkipSpace(block, i + 1) <= Len(block)
                    /\ capitalize(block[SkipSpace(block, i + 1)])
                          \in {"Medium", "Hard"}}
    IN  IF hits = {} THEN NoMatch
        ELSE Match(<<block[SkipSpace(block, Min(hits) + 1)]>>)

\* label\s*(.+?)\nend with re.DOTALL, tried at the label at position i:
\* \s* takes all the blanks it can and gives them back one by one, the lazy
\* group then runs to the first "\n" + end that leaves it a character
LazyAt(block, i, end) ==
    LET starts == {g \in (i + 1)..SkipSpace(block, i + 1) :
                      \E e \in (g + 1)..(Len(block) - 1) :
                          block[e] = "NL" /\ block[e + 1] = end}
    IN  IF starts = {} THEN NoMatch
        ELSE LET g == Max(starts)
                 e == Min({k \in (g + 1)..(Len(block) - 1) :
                              block[k] = "NL" /\ block[k + 1] = end})
             IN  Match(Slice(block, g, e - 1))

\* re.search(label + r"\s*(.+?)\n" + end, block, re.DOTALL)
SearchLazy(block, label, end) ==
    LET hits == {i \in 1..Len(block) :
                    block[i] = label /\ LazyAt(block, i, end).found}
    IN  IF hits = {} THEN NoMatch ELSE LazyAt(block, Min(hits), end)

\* a pattern that takes any capital letter as the key, [A-E] (mutant of
\* SearchCorrect)
SearchCorrectAnyLetter(block) ==
    LET hits == {i \in 1..Len(block) :
                    /\ block[i] = "Correct:"
                    /\ SkipSpace(block, i + 1) <= Len(block)
                    /\ block[SkipSpace(block, i + 1)] \in OptionLetters \cup {"E"}}
    IN  IF hits = {} THEN NoMatch
        ELSE Match(<<block[SkipSpace(block, Min(hits) + 1)]>>)

\* re.search(r"Correct:\s*([A-D])", block)
SearchCorrect(block) ==
    LET hits == {i \in 1..Len(block) :
                    /\ block[i] = "Correct:"
                    /\ SkipSpace(block, i + 1) <= Len(block)
                    /\ block[SkipSpace(block, i + 1)] \in OptionLetters}
    IN  IF hits = {} THEN NoMatch
        ELSE Match(<<block[SkipSpace(block, Min(hits) + 1)]>>)

\* ([A-D])\)\s*(.+) tried at position i: the letter, the parenthesis, the
\* blanks (given back while .+ finds no character), then the rest of the line
OptionAt(s, i) ==
    IF ~(i + 1 <= Len(s) /\ s[i] \in OptionLetters /\ s[i + 1] = ")")
    THEN [found |-> FALSE, letter |-> "", body |-> <<>>, next |-> i + 1]
    ELSE LET starts == {g \in (i + 2)..SkipSpace(s, i + 2) :
                           g <= Len(s) /\ s[g] # "NL"}
         IN  IF starts = {}
             THEN [found |-> FALSE, letter |-> "", body |-> <<>>, next |-> i + 1]
             ELSE LET g == Max(starts)
                      nls == {k \in g..Len(s) : s[k] = "NL"}
                      eol == IF nls = {} THEN Len(s) ELSE Min(nls) - 1
                  IN  [found |-> TRUE, letter |-> s[i],
                       body |-> Slice(s, g, eol), next |-> eol + 1]

\* re.findall(r"([A-D])\)\s*(.+)", options_text): the matches from left to
\* right, none overlapping
RECURSIVE findall(_, _)
findall(s, i) ==
    IF i > Len(s) THEN <<>>
    ELSE LET m == OptionAt(s, i)
         IN  IF m.found
             THEN <<<<m.letter, m.body>>>> \o findall(s, m.next)
             ELSE findall(s, i + 1)

---------------------------------------------------------------------------
(* dict: a sequence of <<key, value>> in insertion order, keys unique *)

DictKeys(d) == {d[i][1] : i \in 1..Len(d)}

\* a mapping whose first value of a key stays (mutant of DictSet)
DictSetFirstWins(d, k, v) ==
    IF k \in DictKeys(d) THEN d ELSE Append(d, <<k, v>>)

\* d[k] = v: a key already there keeps its place and takes the new value
DictSet(d, k, v) ==
    IF k \in DictKeys(d)
    THEN [i \in 1..Len(d) |-> IF d[i][1] = k THEN <<k, v>> ELSE d[i]]
    ELSE Append(d, <<k, v>>)

DictGet(d, k) == d[CHOOSE i \in 1..Len(d) : d[i][1] = k][2]

\* {opt[0].upper(): opt[1].strip() for opt in found}
RECURSIVE OptionsDict(_, _)
OptionsDict(found, d) ==
    IF found = <<>> THEN d
    ELSE OptionsDict(Tail(found),
                     DictSet(d, upper(Head(found)[1]), strip(Head(found)[2])))

---------------------------------------------------------------------------
(* parse_questions *)

MaxQuestions == 7

\* a loop body whose exception is not caught (mutant of Handler)
HandlerRaise == "raise"

\* the except clause of the loop body: skip the malformed block
Handler == "continue"

\* an extraction that keeps the initial "Medium" when no difficulty is
\* matched (mutant of Extract)
ExtractDefaulting(block) ==
    LET dm == SearchDifficulty(block)
        qm == SearchLazy(block, "Question:", "Options:")
        om == SearchLazy(block, "Options:", "Correct:")
        am == SearchCorrect(block)
    IN  IF ~(qm.found /\ om.found /\ am.found)
        THEN [raised |-> TRUE,
              q |-> [difficulty |-> "Medium", question |-> <<>>,
                     options |-> <<>>, answer |-> ""]]
        ELSE [raised |-> FALSE,
              q |-> [difficulty |-> IF dm.found THEN capitalize(dm.group[1])
                                    ELSE "Medium",
                     question |-> strip(qm.group),
                     options |-> OptionsDict(findall(strip(om.group), 1), <<>>),
                     answer |-> upper(am.group[1])]]

\* the components of one block, extracted in the order of the code; a search
\* that finds nothing makes .group raise AttributeError
Extract(block) ==
    LET dm == SearchDifficulty(block)
        qm == SearchLazy(block, "Question:", "Options:")
        om == SearchLazy(block, "Options:", "Correct:")
        am == SearchCorrect(block)
    IN  IF ~(dm.found /\ qm.found /\ om.found /\ am.found)
        THEN [raised |-> TRUE,
              q |-> [difficulty |-> "Medium", question |-> <<>>,
                     options |-> <<>>, answer |-> ""]]
        ELSE [raised |-> FALSE,
              q |-> [difficulty |-> capitalize(dm.group[1]),
                     question |-> strip(qm.group),
                     options |-> OptionsDict(findall(strip(om.group), 1), <<>>),
                     answer |-> upper(am.group[1])]]

\* a validation that forgets the question text (mutant of Validate)
ValidateOptionsOnly(q) ==
    /\ Len(q.options) = 4
    /\ q.answer # ""

\* all([q['question'], len(q['options']) == 4, q['answer']])
Validate(q) ==
    /\ q.question # <<>>
    /\ Len(q.options) = 4
    /\ q.answer # ""

\* questions[:7]
Truncate(qs) == Slice(qs, 1, IF Len(qs) < MaxQuestions THEN Len(qs) ELSE MaxQuestions)

\* the for loop over the blocks, with its try and except
RECURSIVE ParseLoop(_, _)
ParseLoop(blocks, qs) ==
    IF blocks = <<>> THEN [raised |-> FALSE, value |-> qs]
    ELSE LET r == Extract(Head(blocks))
         IN  IF r.raised
             THEN IF Handler = "continue"
                  THEN ParseLoop(Tail(blocks), qs)
                  ELSE [raised |-> TRUE, value |-> <<>>]
             ELSE ParseLoop(Tail(blocks),
                            IF Validate(r.q) THEN Append(qs, r.q) ELSE qs)

\* the chunks after each delimiter: text.split('[Question_')[1:]
QuestionBlocks(s) == Tail(split(s))

parse_questions(s) ==
    LET r == ParseLoop(QuestionBlocks(s), <<>>)
    IN  IF r.raised THEN r ELSE [raised |-> FALSE, value |-> Truncate(r.value)]

---------------------------------------------------------------------------
(* Quiz text: the lines of the format the prompt asks for *)

Line(s) == s \o <<"NL">>

Header == <<"TAG", "1]", "NL">>

DifficultyLine(level) == Line(<<"Difficulty:", "SP", level>>)

QuestionLine(stem) == Line(<<"Question:", "SP", stem>>)

OptionsLine == Line(<<"Options:">>)

OptionLine(letter, body) == Line(<<letter, ")", "SP", body>>)

FourOptions ==
    OptionLine("A", "x") \o OptionLine("B", "y")
    \o OptionLine("C", "z") \o OptionLine("D", "w")

CorrectLine(key) == Line(<<"Correct:", "SP", key>>)

\* a well-formed block: [Question_1] and the nine lines below it
WellFormed(level, stem, key) ==
    Header \o DifficultyLine(level) \o QuestionLine(stem) \o OptionsLine
    \o FourOptions \o CorrectLine(key) \o <<"NL">>

\* the record a well-formed block stands for
RecordOf(level, stem, key) ==
    [difficulty |-> level, question |-> <<stem>>,
     options |-> << <<"A", <<"x">>>>, <<"B", <<"y">>>>,
                    <<"C", <<"z">>>>, <<"D", <<"w">>>> >>,
     answer |-> key]

Preamble == Line(<<"x", "SP", "y">>)

BlockKinds == {"good", "nocorrect", "three"}

\* what the n-th block of a text asks: level, stem and key change with n, so
\* that two records of one text differ unless they are eight blocks apart
LevelAt(n) == IF n % 2 = 1 THEN "medium" ELSE "HARD"

StemAt(n) == <<"x", "y", "z", "w">>[(n % 4) + 1]

KeyAt(n) == <<"A", "B", "C", "D">>[((n \div 2) % 4) + 1]

BlockText(kind, n) ==
    CASE kind = "good" -> WellFormed(LevelAt(n), StemAt(n), KeyAt(n))
      [] kind = "nocorrect" ->
            Header \o DifficultyLine(LevelAt(n)) \o QuestionLine(StemAt(n))
            \o OptionsLine \o FourOptions
      [] kind = "three" ->
            Header \o DifficultyLine(LevelAt(n)) \o QuestionLine(StemAt(n))
            \o OptionsLine \o OptionLine("A", "x") \o OptionLine("B", "y")
            \o OptionLine("C", "z") \o CorrectLine(KeyAt(n))

---------------------------------------------------------------------------
(* The session: the script of app.py, run from top to bottom once for each *)
(* event of the user, one run at a time.                                   *)

PassMark == 70

\* None in st.session_state.questions, and a list there
None == [none |-> TRUE, list |-> <<>>]

List(qs) == [none |-> FALSE, list |-> qs]

\* bool(x) of what st.session_state.questions holds
Truthy(qv) == ~qv.none /\ qv.list # <<>>

\* the keys of enumerate(questions)
Indices(qs) == 0..(Len(qs) - 1)

EmptyDict == [i \in {} |-> ""]

\* the score: (correct / n) * 100, kept as the fraction num / den
Zero == [num |-> 0, den |-> 1]

\* extract_video_id(url): the URL field holds nothing, a YouTube URL, or
\* text the pattern does not match
Urls == {"", "watch", "other"}

extract_video_id(u) == IF u = "watch" THEN [found |-> TRUE] ELSE [found |-> FALSE]

\* get_transcript(video_id): the fetch raises, or returns the joined text,
\* which is empty for a transcript of no chunks
TranscriptOutcomes == {"raises", "empty", "text"}

get_transcript(t) ==
    IF t = "raises" THEN [error |-> TRUE, truthy |-> FALSE]
    ELSE [error |-> FALSE, truthy |-> (t = "text")]

\* a generation that parses whatever text came, empty text too (mutant of
\* generate_questions)
generate_questions_unchecked(g) ==
    IF g.raises
    THEN [error |-> TRUE, value |-> None]
    ELSE Bind(parse_questions(g.text),
              LAMBDA r : IF r.raised THEN [error |-> TRUE, value |-> None]
                         ELSE [error |-> FALSE, value |-> List(r.value)])

\* generate_questions(transcript): the generation call raises or returns
\* response text; empty text raises ValueError; the except clause reports
\* the error and returns None
generate_questions(g) ==
    IF g.raises \/ g.text = <<>>
    THEN [error |-> TRUE, value |-> None]
    ELSE Bind(parse_questions(g.text),
              LAMBDA r : IF r.raised THEN [error |-> TRUE, value |-> None]
                         ELSE [error |-> FALSE, value |-> List(r.value)])

\* a handler that keeps the questions it has when the generation fails
\* (mutant of GenerateHandler)
GenerateHandlerKeepOnFailure(st, t, g) ==
    LET tr == get_transcript(t)
    IN  IF tr.truthy
        THEN Bind(generate_questions(g),
                  LAMBDA gen : [st EXCEPT !.questions = IF gen.value = None
                                                        THEN @ ELSE gen.value,
                                          !.answers = EmptyDict,
                                          !.score = Zero,
                                          !.error = gen.error])
        ELSE [st EXCEPT !.error = tr.error]

\* a handler that does not empty the answers (mutant of GenerateHandler)
GenerateHandlerStaleAnswers(st, t, g) ==
    LET tr == get_transcript(t)
    IN  IF tr.truthy
        THEN Bind(generate_questions(g),
                  LAMBDA gen : [st EXCEPT !.questions = gen.value,
                                          !.score = Zero,
                                          !.error = gen.error])
        ELSE [st EXCEPT !.error = tr.error]

\* the body of  if st.button("Generate Quiz"):  on the session state st
GenerateHandler(st, t, g) ==
    LET tr == get_transcript(t)
    IN  IF tr.truthy
        THEN Bind(generate_questions(g),
                  LAMBDA gen : [st EXCEPT !.questions = gen.value,
                                          !.answers = EmptyDict,
                                          !.score = Zero,
                                          !.error = gen.error])
        ELSE [st EXCEPT !.error = tr.error]

\* the value st.radio returns for question i: the selection its widget
\* state holds, else the first option
RadioValue(st, i) ==
    IF i \in DOMAIN st.radio THEN st.radio[i]
    ELSE st.questions.list[i + 1].options[1][1]

\* Step 2: the questions and their radios; every radio's letter is stored
Display(st) ==
    IF ~Truthy(st.questions) THEN [st EXCEPT !.radio = EmptyDict]
    ELSE Bind([i \in Indices(st.questions.list) |-> RadioValue(st, i)],
              LAMBDA shown :
                [st EXCEPT !.quiz = TRUE,
                           !.radio = shown,
                           !.answers = [i \in (DOMAIN st.answers)
                                               \cup (DOMAIN shown) |->
                                           IF i \in DOMAIN shown THEN shown[i]
                                           ELSE st.answers[i]]])

\* answers.get(i, '')
Get(d, i) == IF i \in DOMAIN d THEN d[i] ELSE ""

\* the loop that counts the correct answers, from question i on
RECURSIVE CountCorrect(_, _, _)
CountCorrect(qs, ans, i) ==
    IF i >= Len(qs) THEN 0
    ELSE (IF Get(ans, i) = qs[i + 1].answer THEN 1 ELSE 0)
         + CountCorrect(qs, ans, i + 1)

\* a percentage of the seven questions asked for (mutant of Percentage)
PercentageOfSeven(correct, n) == [num |-> correct * 100, den |-> MaxQuestions]

\* (correct / len(questions)) * 100
Percentage(correct, n) == [num |-> correct * 100, den |-> n]

AtLeast(sc, mark) == sc.num >= mark * sc.den

\* Step 3, entered when the questions are truthy and the Submit button was
\* the event of this run; name is what the name field returns
SubmitHandler(st, name) ==
    Bind(Percentage(CountCorrect(st.questions.list, st.answers, 0),
                    Len(st.questions.list)),
         LAMBDA sc :
           IF AtLeast(sc, PassMark)
           THEN [st EXCEPT !.score = sc, !.result = "pass",
                           !.certificates =
                               IF name # "" THEN @ \cup {name} ELSE @,
                           !.download = (name # "")]
           ELSE [st EXCEPT !.score = sc, !.result = "fail"])

\* Streamlit keeps a radio's selection from one run to the next while the
\* widget is the same one: same key, same label, same options
KeptWidgets(old, new, r) ==
    LET same == {i \in DOMAIN r :
                    /\ i < Len(old.list) /\ i < Len(new.list)
                    /\ old.list[i + 1].options = new.list[i + 1].options}
    IN  [i \in same |-> r[i]]

\* what the name field returns in a run: the text just entered when its
\* entry is the event of the run, else the empty field
NameValue(ev) == IF ev.event = "name" THEN ev.name ELSE ""

NoGeneration == [raises |-> FALSE, text |-> <<>>]

Event(e) ==
    [event |-> e, t |-> "", g |-> NoGeneration, name |-> "",
     prior |-> List(<<>>)]

\* one run of the script, lines 135 to 189, for the event ev
Script(u, qv, ans, sc, r, certs, ev) ==
    LET st0 == [questions |-> qv, answers |-> ans, score |-> sc, radio |-> r,
                certificates |-> certs, error |-> FALSE, quiz |-> FALSE,
                result |-> "none", download |-> FALSE]
    IN  Bind(IF u # "" /\ extract_video_id(u).found /\ ev.event = "generate"
             THEN GenerateHandler(st0, ev.t, ev.g)
             ELSE st0,
             LAMBDA st1 :
               Bind(Display([st1 EXCEPT
                               !.radio = KeptWidgets(qv, st1.questions, r)]),
                    LAMBDA st2 :
                      IF Truthy(st2.questions) /\ ev.event = "submit"
                      THEN SubmitHandler(st2, NameValue(ev))
                      ELSE st2))

\* the run for ev from the current state, and what the run was started from
Run(u, r, ev) ==
    \E st \in {Script(u, questions, answers, score, r, certificates, ev)} :
        /\ url' = u
        /\ questions' = st.questions
        /\ answers' = st.answers
        /\ score' = st.score
        /\ radio' = st.radio
        /\ certificates' = st.certificates
        /\ page' = [error |-> st.error, quiz |-> st.quiz,
                    result |-> st.result, download |-> st.download]
        /\ last' = [ev EXCEPT !.prior = IF ev.event = "generate"
                                        THEN questions ELSE List(<<>>)]
        /\ UNCHANGED parseVars

Names == {"Ann"}

ResponseTexts ==
    {<<>>, Preamble, Preamble \o WellFormed("medium", "x", "A"),
     WellFormed("hard", "y", "B") \o BlockText("three", 2)
        \o WellFormed("medium", "x", "A"),
     WellFormed("medium", "x", "A") \o WellFormed("HARD", "y", "B")
        \o WellFormed("medium", "z", "C") \o WellFormed("hard", "w", "D")}

GenerationOutcomes ==
    {[raises |-> TRUE, text |-> <<>>]}
    \cup {[raises |-> FALSE, text |-> t] : t \in ResponseTexts}

SessionInit ==
    /\ url = ""
    /\ questions = List(<<>>)
    /\ answers = EmptyDict
    /\ score = Zero
    /\ radio = EmptyDict
    /\ page = [error |-> FALSE, quiz |-> FALSE, result |-> "none",
               download |-> FALSE]
    /\ certificates = {}
    /\ last = Event("start")

Init ==
    /\ text = <<>>
    /\ built = <<>>
    /\ outcome = [raised |-> FALSE, value |-> <<>>]
    /\ stage = "session"
    /\ SessionInit

\* the user types into the URL field
EnterUrl ==
    \E u \in Urls :
        /\ u # url
        /\ Run(u, radio, Event("url"))

\* the user presses Generate Quiz, shown while the URL names a video
ClickGenerate ==
    /\ url # ""
    /\ extract_video_id(url).found
    /\ \E t \in TranscriptOutcomes, g \in GenerationOutcomes :
          \* the generation call is made for a transcript with text only
          /\ t # "text" => g = NoGeneration
          /\ Run(url, radio, [Event("generate") EXCEPT !.t = t, !.g = g])

\* the user picks an option of a question on display
SelectAnswer ==
    /\ page.quiz
    /\ \E i \in DOMAIN radio :
          \E k \in DictKeys(questions.list[i + 1].options) :
              /\ k # radio[i]
              /\ Run(url, [radio EXCEPT ![i] = k],
                     Event("select"))

\* the user presses Submit Answers, shown while questions are on display
ClickSubmit ==
    /\ page.quiz
    /\ Run(url, radio, Event("submit"))

\* the user types a name into the name field, shown after a passing Submit
EnterName ==
    /\ page.result = "pass"
    /\ \E n \in Names :
          Run(url, radio, [Event("name") EXCEPT !.name = n])

Next == EnterUrl \/ ClickGenerate \/ SelectAnswer \/ ClickSubmit \/ EnterName

Spec == Init /\ [][Next]_vars

---------------------------------------------------------------------------
(* SpecParse: parse_questions on texts of several blocks *)

MaxBlocks == 8

NoOutcome == [raised |-> FALSE, value |-> <<>>]


InitParse ==
    /\ text \in {<<>>, Preamble}
    /\ built = <<>>
    /\ outcome = NoOutcome
    /\ stage = "build"
    /\ SessionInit

AppendBlock ==
    /\ stage = "build"
    /\ Len(built) < MaxBlocks
    /\ \E kind \in BlockKinds :
          /\ text' = text \o BlockText(kind, Len(built) + 1)
          /\ built' = Append(built, kind)
    /\ UNCHANGED <<outcome, stage>>
    /\ UNCHANGED sessionVars

CallParse ==
    /\ stage = "build"
    /\ outcome' = parse_questions(text)
    /\ stage' = "done"
    /\ UNCHANGED <<text, built>>
    /\ UNCHANGED sessionVars

NextParse == AppendBlock \/ CallParse

SpecParse == InitParse /\ [][NextParse]_vars

---------------------------------------------------------------------------
(* SpecBlock: parse_questions on one block, written line by line.  Each    *)
(* line is the prompt's form of it or a departure from it; a text has any  *)
(* option lines, and at most one other line that departs.                  *)

MaxOptionLines == 5

DifficultyForms == {"medium", "HARD", "easy", "none"}

QuestionForms == {"stem", "blank", "none"}

OptionForms == {"A", "B", "C", "D", "E", "blank"}

CorrectForms == {"key", "E", "none"}

DifficultyText(form) ==
    CASE form = "medium" -> DifficultyLine("medium")
      [] form = "HARD" -> <<"Difficulty:", "NL", "SP", "HARD", "NL">>
      [] form = "easy" -> DifficultyLine("easy")
      [] form = "none" -> <<>>

QuestionText(form) ==
    CASE form = "stem" -> QuestionLine("x") \o OptionsLine
      [] form = "blank" -> <<"Question:", "SP", "NL">> \o OptionsLine
      [] form = "none" -> OptionsLine

\* the n-th option line of the block; the blank one is "B) " and no text
OptionText(form, n) ==
    IF form = "blank" THEN <<"B", ")", "SP", "NL">>
    ELSE OptionLine(form, StemAt(n))

CorrectText(form) ==
    CASE form = "key" -> CorrectLine("C")
      [] form = "E" -> CorrectLine("E")
      [] form = "none" -> <<>>

Departed(b) ==
    \/ b.difficulty # "medium"
    \/ b.question \notin {"", "stem"}

InitBlock ==
    /\ text = Header
    /\ built = [difficulty |-> "", question |-> "", options |-> <<>>,
                correct |-> ""]
    /\ outcome = NoOutcome
    /\ stage = "difficulty"
    /\ SessionInit

WriteDifficulty ==
    /\ stage = "difficulty"
    /\ \E form \in DifficultyForms :
          /\ text' = text \o DifficultyText(form)
          /\ built' = [built EXCEPT !.difficulty = form]
    /\ stage' = "question"
    /\ UNCHANGED outcome
    /\ UNCHANGED sessionVars

WriteQuestion ==
    /\ stage = "question"
    /\ \E form \in QuestionForms :
          /\ form # "stem" => ~Departed(built)
          /\ text' = text \o QuestionText(form)
          /\ built' = [built EXCEPT !.question = form]
    /\ stage' = "options"
    /\ UNCHANGED outcome
    /\ UNCHANGED sessionVars

WriteOption ==
    /\ stage = "options"
    /\ Len(built.options) < MaxOptionLines
    /\ \E form \in OptionForms :
          /\ text' = text \o OptionText(form, Len(built.options) + 1)
          /\ built' = [built EXCEPT !.options = Append(@, form)]
    /\ UNCHANGED <<outcome, stage>>
    /\ UNCHANGED sessionVars

WriteCorrect ==
    /\ stage = "options"
    /\ \E form \in CorrectForms :
          /\ form # "key" => ~Departed(built)
          /\ text' = text \o CorrectText(form)
          /\ built' = [built EXCEPT !.correct = form]
    /\ stage' = "written"
    /\ UNCHANGED outcome
    /\ UNCHANGED sessionVars

ParseBlock ==
    /\ stage = "written"
    /\ outcome' = parse_questions(text)
    /\ stage' = "done"
    /\ UNCHANGED <<text, built>>
    /\ UNCHANGED sessionVars

NextBlock ==
    WriteDifficulty \/ WriteQuestion \/ WriteOption \/ WriteCorrect \/ ParseBlock

SpecBlock == InitBlock /\ [][NextBlock]_vars

---------------------------------------------------------------------------
(* Properties of parse_questions on texts of several blocks (SpecParse) *)

LevelNameAt(n) == IF n % 2 = 1 THEN "Medium" ELSE "Hard"

\* the records the well-formed blocks among kinds stand for, in block order
RECURSIVE Wanted(_, _)
Wanted(kinds, n) ==
    IF n > Len(kinds) THEN <<>>
    ELSE (IF kinds[n] = "good"
          THEN <<RecordOf(LevelNameAt(n), StemAt(n), KeyAt(n))>>
          ELSE <<>>) \o Wanted(kinds, n + 1)

FirstSeven(qs) == [i \in 1..(IF Len(qs) > 7 THEN 7 ELSE Len(qs)) |-> qs[i]]

\* C1: for every input the call returns without raising, and returns the
\* records of the valid blocks after each delimiter, in block order, cut
\* to the first 7; a malformed block removes and alters no other record.
C1_ParseReturnsValidBlocksInOrder ==
    stage = "done" =>
        /\ ~outcome.raised
        /\ outcome.value = FirstSeven(Wanted(built, 1))

\* eight well-formed blocks after a preamble were parsed: seven records
C1_Witness ==
    /\ stage = "done"
    /\ Len(built) = 8
    /\ \A n \in 1..8 : built[n] = "good"
    /\ text # <<>> /\ text[1] # "TAG"
    /\ Len(outcome.value) = 7

\* malformed blocks among well-formed ones were parsed
C1_WitnessSkipped ==
    /\ stage = "done"
    /\ \E m, n \in 1..Len(built) : built[m] = "nocorrect" /\ built[n] = "three"
    /\ Len(outcome.value) = 5

---------------------------------------------------------------------------
(* Properties of parse_questions on one block (SpecBlock) *)

\* the option lines the options pattern finds among the lines written, as
\* <<letter, number of the line its text comes from>>: "E) ..." is no
\* option; a blank "B) " takes the next line as its text, and finds
\* nothing when it is the last line
RECURSIVE FoundLines(_, _)
FoundLines(forms, n) ==
    IF n > Len(forms) THEN <<>>
    ELSE IF forms[n] = "E" THEN FoundLines(forms, n + 1)
    ELSE IF forms[n] = "blank"
         THEN IF n = Len(forms) THEN <<>>
              ELSE <<<<"B", n + 1>>>> \o FoundLines(forms, n + 2)
    ELSE <<<<forms[n], n>>>> \o FoundLines(forms, n + 1)

FoundLetters(forms) ==
    {FoundLines(forms, 1)[j][1] : j \in 1..Len(FoundLines(forms, 1))}

\* the text the n-th line written gives its letter when nothing precedes it
\* on the line but a blank option
LineBody(forms, n, swallowed) ==
    IF ~swallowed THEN <<StemAt(n)>>
    ELSE IF forms[n] = "blank" THEN <<"B", ")">>
    ELSE <<forms[n], ")", "SP", StemAt(n)>>

\* the other lines of the block are the prompt's
HeaderWritten(b) ==
    /\ b.difficulty \in {"medium", "HARD"}
    /\ b.question = "stem"
    /\ b.correct = "key"

Returned == stage = "done" /\ outcome.value # <<>>

\* C2: every record returned has a non-empty question text, an options
\* mapping of exactly the letters A, B, C, D, each with text that is
\* non-empty after trimming, and a correct-answer letter.
C2_RecordsComplete ==
    stage = "done" =>
        \A j \in 1..Len(outcome.value) :
            LET q == outcome.value[j]
            IN  /\ q.question # <<>>
                /\ strip(q.question) = q.question
                /\ Len(q.options) = 4
                /\ DictKeys(q.options) = {"A", "B", "C", "D"}
                /\ \A k \in 1..4 :
                      \E c \in 1..Len(q.options[k][2]) :
                          q.options[k][2][c] \notin Whitespace
                /\ q.answer \in {"A", "B", "C", "D"}
                /\ q.difficulty \in {"Medium", "Hard"}

\* a record came from a block one of whose option lines had no text
C2_Witness ==
    /\ Returned
    /\ \E n \in 1..Len(built.options) : built.options[n] = "blank"

\* C3 as stated: a block yields a record only if exactly 4 option lines
\* with 4 distinct letters are found; a letter found twice fails the block.
C3_DuplicateLettersRejected ==
    Returned =>
        /\ Len(FoundLines(built.options, 1)) = 4
        /\ FoundLetters(built.options) = {"A", "B", "C", "D"}

\* C3 amended: a block yields a record exactly when, its other lines being
\* in order, the option lines found carry all four letters A-D; fewer than
\* four distinct letters yield none; a letter found more than once does not
\* fail the block: the letter keeps the text of the last line found for it.
C3_FourDistinctLettersLastWins ==
    stage = "done" =>
        /\ Returned <=> /\ HeaderWritten(built)
                        /\ FoundLetters(built.options) = {"A", "B", "C", "D"}
        /\ Returned =>
              LET found == FoundLines(built.options, 1)
                  q == outcome.value[1]
              IN  \A j \in 1..Len(found) :
                      (\A k \in (j + 1)..Len(found) : found[k][1] # found[j][1])
                      => DictGet(q.options, found[j][1])
                            = LineBody(built.options, found[j][2],
                                       found[j][2] > 1
                                       /\ built.options[found[j][2] - 1] = "blank"
                                       /\ (j = 1 \/ found[j - 1][2] # found[j][2] - 1))

\* a record came from a block in which a letter was found on two lines
C3_Witness ==
    /\ Returned
    /\ Len(FoundLines(built.options, 1)) = 5
    /\ \A n \in 1..Len(built.options) : built.options[n] # "blank"

\* C4: a block in which no "Difficulty:" followed by medium or hard can be
\* matched yields no record, the initial "Medium" is never kept, and the
\* difficulty of a record is the capitalized word matched in its block.
C4_DifficultyMatchedOrBlockSkipped ==
    stage = "done" =>
        /\ built.difficulty \in {"easy", "none"} => outcome.value = <<>>
        /\ \A j \in 1..Len(outcome.value) :
              /\ built.difficulty = "medium"
                    => outcome.value[j].difficulty = "Medium"
              /\ built.difficulty = "HARD"
                    => outcome.value[j].difficulty = "Hard"

\* a block complete but for its difficulty line was parsed: no record
C4_Witness ==
    /\ stage = "done"
    /\ built.difficulty = "none"
    /\ built.question = "stem" /\ built.correct = "key"
    /\ built.options = <<"A", "B", "C", "D">>
    /\ outcome.value = <<>>

\* a block whose difficulty is written HARD after a line break: Hard
C4_WitnessHard ==
    /\ Returned
    /\ built.difficulty = "HARD"
    /\ outcome.value[1].difficulty = "Hard"

\* C10: the correct-answer letter of every record returned is a key of the
\* record's options mapping.
C10_AnswerIsAnOption ==
    stage = "done" =>
        \A j \in 1..Len(outcome.value) :
            outcome.value[j].answer \in DictKeys(outcome.value[j].options)

\* a record was returned whose options were written out of order
C10_Witness ==
    /\ Returned
    /\ built.options[1] = "D"
    /\ outcome.value[1].answer = "C"
    /\ outcome.value[1].options[1][1] = "D"

---------------------------------------------------------------------------
(* Properties of the session (Spec) *)

IsQuestionRecord(q) ==
    /\ q.difficulty \in {"Medium", "Hard"}
    /\ q.question # <<>>
    /\ DictKeys(q.options) = {"A", "B", "C", "D"}
    /\ q.answer \in {"A", "B", "C", "D"}

IsQuestionList(qv) ==
    /\ ~qv.none
    /\ Len(qv.list) <= 7
    /\ \A j \in 1..Len(qv.list) : IsQuestionRecord(qv.list[j])

Generated == last.event = "generate"

\* the generation call of the last run was made and failed
GenerationFailed ==
    Generated /\ last.t = "text" /\ (last.g.raises \/ last.g.text = <<>>)

CorrectlyAnswered ==
    {i \in Indices(questions.list) :
        i \in DOMAIN answers /\ answers[i] = questions.list[i + 1].answer}

\* C7: the Submit action is performed only on n >= 1 questions, so it
\* never divides by zero, and with no questions the score stays 0; it sets
\* the score to 100 * (number of i with answers[i] = the key of question i)
\* / n, a missing or other answer counting as incorrect; the score is
\* always within [0, 100].
C7_ScoreIsPercentageCorrect ==
    /\ score.den >= 1
    /\ 0 <= score.num /\ score.num <= 100 * score.den
    /\ ~Truthy(questions) => score.num = 0
    /\ last.event = "submit" =>
          /\ Len(questions.list) >= 1
          /\ score.den = Len(questions.list)
          /\ score.num = 100 * Cardinality(CorrectlyAnswered)

\* keys A, B, C, D answered A, B, not C, D, and submitted: 75
C7_Witness ==
    /\ last.event = "submit"
    /\ Len(questions.list) = 4
    /\ \A i \in 0..3 : questions.list[i + 1].answer = <<"A", "B", "C", "D">>[i + 1]
    /\ answers[0] = "A" /\ answers[1] = "B" /\ answers[2] # "C" /\ answers[3] = "D"
    /\ score.num = 75 * score.den

\* what a generate action would leave and show, started in this state with
\* the transcript outcome t and the generation outcome g
GenerateOutcome(t, g) ==
    Bind(Script("watch", questions, answers, score, radio, certificates,
                [Event("generate") EXCEPT !.t = t, !.g = g]),
         LAMBDA st : [questions |-> st.questions, answers |-> st.answers,
                      score |-> st.score, error |-> st.error,
                      quiz |-> st.quiz])

EmptyText == [raises |-> FALSE, text |-> <<>>]

Raising == [raises |-> TRUE, text |-> <<>>]

\* C8 as stated: a generate action whose generation call returns empty text
\* leaves the same QuizState and shows the same as one whose transcript
\* fetch fails and as one whose generation call raises.
C8_EmptyTextAsAnyAcquisitionFailure ==
    /\ GenerateOutcome("text", EmptyText) = GenerateOutcome("text", Raising)
    /\ GenerateOutcome("text", EmptyText) = GenerateOutcome("raises", NoGeneration)

\* C8 amended: a generate action whose generation call returns empty text
\* is treated identically to one whose generation call raises: an error is
\* shown, the questions become None, the answers are emptied, the score is
\* 0 and no quiz is shown.  One whose transcript fetch fails shows an error
\* too but leaves the QuizState as it was, a quiz held before included.
C8_EmptyTextAsGenerationFailure ==
    /\ GenerateOutcome("text", EmptyText) = GenerateOutcome("text", Raising)
    /\ GenerateOutcome("text", EmptyText) =
          [questions |-> None, answers |-> EmptyDict, score |-> Zero,
           error |-> TRUE, quiz |-> FALSE]
    /\ GenerateOutcome("raises", NoGeneration) =
          [questions |-> questions, answers |-> answers, score |-> score,
           error |-> TRUE, quiz |-> Truthy(questions)]
    /\ GenerationFailed =>
          /\ questions = None /\ answers = EmptyDict /\ score = Zero
          /\ page.error /\ ~page.quiz
    /\ Generated /\ last.t = "raises" =>
          /\ questions = last.prior
          /\ page.error /\ page.quiz = Truthy(questions)

\* the generation call returned empty text while a quiz was on display
C8_Witness ==
    /\ GenerationFailed
    /\ ~last.g.raises
    /\ Truthy(last.prior)
    /\ questions = None /\ page.error

\* C9: once a Submit has computed a score >= 70, the user entering a
\* non-empty name in the name field offered leads to generate_certificate
\* being called for that name and the download being offered; with a score
\* below 70 no certificate is generated.
C9_CertificateForNameEntered ==
    /\ last.event = "name" /\ last.name # "" /\ AtLeast(score, PassMark) =>
          last.name \in certificates /\ page.download
    /\ ~AtLeast(score, PassMark) => certificates = {}

===========================================================================
